---- MODULE Spec2Model ----
(***************************************************************************)
(* Model of the obesity dashboard (dashboard.py, plots_index.py,           *)
(* plots_page2.py, plots_page3.py).                                        *)
(*                                                                         *)
(* The process-wide DataFrame df is a sequence of rows; a row maps a       *)
(* column name to a category code.  Codes are integers whose order is the  *)
(* sort order of the category values.  The pandas calls the chart builders *)
(* make (groupby/size, unstack, reset_index, melt, fillna, unique,         *)
(* sort_values, crosstab) are operators computed the way pandas computes   *)
(* them; a request handler is one action that runs every chart builder of  *)
(* its page on the shared df.                                              *)
(*                                                                         *)
(* The specifications of the request handlers start from the process with  *)
(* its modules loaded and df read: there the names the chart modules       *)
(* import from utils are taken to resolve.  plots_page2.py:13 imports      *)
(* custom_scale_radii; its result, the fixed radial gridlines of the donut *)
(* chart, does not depend on df or on the request and is no part of the    *)
(* chart data modelled here.  The loading of the modules itself is the     *)
(* specification SpecStartup.                                              *)
(***************************************************************************)
EXTENDS Integers, Sequences, FiniteSets

VARIABLES
    df,        \* dashboard.py:15, the shared DataFrame (rows in their current order)
    loaded,    \* history: df as read_parquet returned it at process start
    lastReq,   \* the request handled last (page and dropdown parameters)
    result,    \* what the chart builders of lastReq produced, or the failure
    pc,        \* concurrent model: each worker thread's position in its handler
    req,       \* concurrent model: each worker thread's request
    acc        \* concurrent model: chart data a thread has built so far

vars == <<df, loaded, lastReq, result, pc, req, acc>>

-----------------------------------------------------------------------------
(* Bounds of the model.                                                    *)

\* the largest number of rows of a Dataset that serves one request
MaxRows == 3

\* the largest number of rows of a Dataset that serves a series of requests
MaxSharedRows == 2

\* the marker pandas puts in a cell that no group filled (numpy.nan)
NaN == -1

-----------------------------------------------------------------------------
(* The Dataset.                                                            *)

\* the columns of final_dataset.parquet that the chart builders read
Columns ==
    {"nobeyesdad", "gender", "age_group", "age",
     "ncp", "mtrans",
     "family_history_with_overweight", "hypertension", "heart_disease", "diabetes"}

\* A row of the bounded Dataset: obesity class c, demographic value s (gender,
\* and the age and age group), and value x of the habit and health columns.
\* Every chart groups by the class, one demographic column and one such
\* column, so the three vary independently in every chart.
Row(c, s, x) ==
    [nobeyesdad |-> c, gender |-> s, age_group |-> s, age |-> s,
     ncp |-> x, mtrans |-> x,
     family_history_with_overweight |-> x, hypertension |-> x,
     heart_disease |-> x, diabetes |-> x]

Rows == {Row(c, s, x) : c \in 1..2, s \in 1..2, x \in 1..2}

Datasets(max) == UNION {[1..n -> Rows] : n \in 1..max}

-----------------------------------------------------------------------------
(* Sequences and orders.                                                   *)

RECURSIVE SumSeq(_)
SumSeq(s) == IF s = <<>> THEN 0 ELSE Head(s) + SumSeq(Tail(s))

RECURSIVE MaxSeq(_)
MaxSeq(s) ==
    IF Len(s) = 1 THEN s[1]
    ELSE LET m == MaxSeq(Tail(s)) IN IF s[1] >= m THEN s[1] ELSE m

RECURSIVE FilterSeq(_, _)
\* the entries of s whose position is in keep, in s's order (boolean indexing)
FilterSeq(s, keep) ==
    IF s = <<>> THEN <<>>
    ELSE LET rest == FilterSeq(Tail(s), {i - 1 : i \in keep \ {1}})
         IN  IF 1 \in keep THEN <<Head(s)>> \o rest ELSE rest

\* tuples of equal length, compared entry by entry
LexLess(a, b) ==
    \E i \in 1..Len(a) :
        /\ a[i] < b[i]
        /\ \A j \in 1..(i - 1) : a[j] = b[j]

RECURSIVE SortedKeys(_)
\* the tuples of S in ascending order
SortedKeys(S) ==
    IF S = {} THEN <<>>
    ELSE LET m == CHOOSE x \in S : \A y \in S : ~LexLess(y, x)
         IN  <<m>> \o SortedKeys(S \ {m})

RECURSIVE FirstSeen(_, _)
FirstSeen(s, seen) ==
    IF s = <<>> THEN <<>>
    ELSE IF Head(s) \in seen THEN FirstSeen(Tail(s), seen)
         ELSE <<Head(s)>> \o FirstSeen(Tail(s), seen \cup {Head(s)})

\* Series.unique(): the distinct values in order of first appearance
Unique(s) == FirstSeen(s, {})

\* the longest Dataset of any specification
MaxLen == IF MaxRows > MaxSharedRows THEN MaxRows ELSE MaxSharedRows

\* the reorderings of n positions, for every n up to MaxLen
AllOrders ==
    [n \in 1..MaxLen |->
        {f \in [1..n -> 1..n] : \A i, j \in 1..n : f[i] = f[j] => i = j}]

Orders(n) == AllOrders[n]

\* df[col] as a sequence
Column(d, col) == [i \in 1..Len(d) |-> d[i][col]]

-----------------------------------------------------------------------------
(* pandas: groupby(by).size(), unstack(), reset_index(), melt(), fillna(). *)

\* the group key of row r for the grouping columns by
KeyOf(r, by) == [j \in 1..Len(by) |-> r[by[j]]]

\* the group keys of df.groupby(by): the combinations that occur in d, sorted
\* (groupby's default sort=True); combinations with no row are no group
GroupKeys(d, by) == SortedKeys({KeyOf(d[i], by) : i \in 1..Len(d)})

\* groupby(by).size() that counts every group once instead of its rows
GroupSizeOnes(d, by) ==
    LET keys == GroupKeys(d, by)
    IN  [k \in 1..Len(keys) |-> [key |-> keys[k], size |-> 1]]

\* df.groupby(by).size(): one entry per group, its number of rows
GroupSize(d, by) ==
    LET keys == GroupKeys(d, by)
    IN  [k \in 1..Len(keys) |->
            [key  |-> keys[k],
             size |-> Cardinality({i \in 1..Len(d) : KeyOf(d[i], by) = keys[k]})]]

\* a key without its last level, and its last level
Front(key) == SubSeq(key, 1, Len(key) - 1)
Last(key)  == key[Len(key)]

\* Series.unstack().reset_index(): the last key level becomes the columns
\* (sorted), the remaining levels the rows (sorted); a cell whose (row,
\* column) is no group holds NaN
Unstack(series) ==
    LET index   == SortedKeys({Front(series[k].key) : k \in 1..Len(series)})
        columns == SortedKeys({<<Last(series[k].key)>> : k \in 1..Len(series)})
        Cell(id, c) ==
            IF \E k \in 1..Len(series) : series[k].key = id \o c
            THEN LET k == CHOOSE k \in 1..Len(series) : series[k].key = id \o c
                 IN  series[k].size
            ELSE NaN
    IN  [index   |-> index,
         columns |-> [j \in 1..Len(columns) |-> columns[j][1]],
         values  |-> [i \in 1..Len(index) |->
                        [j \in 1..Len(columns) |-> Cell(index[i], columns[j])]]]

\* a reshaping that drops the cells no group filled (as stack() does)
MeltDropNa(wide) ==
    LET n == Len(wide.index)
        m == Len(wide.columns)
        all == [p \in 1..(n * m) |->
                   LET j == ((p - 1) \div n) + 1
                       i == ((p - 1) % n) + 1
                   IN  [id     |-> wide.index[i],
                        var    |-> wide.columns[j],
                        counts |-> wide.values[i][j]]]
    IN  FilterSeq(all, {p \in 1..(n * m) : all[p].counts # NaN})

\* pd.melt(wide, id_vars = the row levels): one row per (row, column) of the
\* wide table, column after column, the rows of each column in table order
Melt(wide) ==
    LET n == Len(wide.index)
        m == Len(wide.columns)
    IN  [p \in 1..(n * m) |->
            LET j == ((p - 1) \div n) + 1
                i == ((p - 1) % n) + 1
            IN  [id     |-> wide.index[i],
                 var    |-> wide.columns[j],
                 counts |-> wide.values[i][j]]]

\* the melted table with the fillna(0) left out
FillNaCountsMissing(melted) == melted

\* a zero-fill that answers an empty table with one row of zeros
FillNaCountsPadded(melted) ==
    IF melted = <<>> THEN <<[id |-> <<>>, var |-> 0, counts |-> 0]>>
    ELSE [p \in 1..Len(melted) |->
             [melted[p] EXCEPT !.counts = IF @ = NaN THEN 0 ELSE @]]

\* melted_df['counts'].fillna(0)
FillNaCounts(melted) ==
    [p \in 1..Len(melted) |->
        [melted[p] EXCEPT !.counts = IF @ = NaN THEN 0 ELSE @]]

\* grouped_df.fillna(0) on a wide table
FillNaWide(wide) ==
    [wide EXCEPT !.values =
        [i \in 1..Len(wide.index) |->
            [j \in 1..Len(wide.columns) |->
                IF wide.values[i][j] = NaN THEN 0 ELSE wide.values[i][j]]]]

\* a lookup failure answered with an empty set of charts
EmptyCharts == [ok |-> TRUE, error |-> "", charts |-> <<>>]

\* a key error: the column is not in the DataFrame, or not in the dictionary
KeyError == [ok |-> FALSE, error |-> "KeyError", charts |-> <<>>]

Success(charts) == [ok |-> TRUE, error |-> "", charts |-> charts]

-----------------------------------------------------------------------------
(* plots_index.py: the four chart builders of the index page.              *)

\* the keys of plots_index.variables_dict
variables_dict_index ==
    {"favc", "gender", "age_group", "age", "caec", "fcvc", "ncp", "ch2o",
     "nobeyesdad"}

\* the column of a melted table that holds level k of the row key
IdColumn(melted, k) == [p \in 1..Len(melted) |-> melted[p].id[k]]
VarColumn(melted)   == [p \in 1..Len(melted) |-> melted[p].var]
CountsColumn(melted) == [p \in 1..Len(melted) |-> melted[p].counts]

\* melted_df[melted_df['nobeyesdad'] == obesity_category]
WhereClass(melted, obesity_category) ==
    FilterSeq(melted, {p \in 1..Len(melted) : melted[p].id[1] = obesity_category})

\* group, unstack, melt and zero-fill, as each chart builder chains them
MeltedCounts(d, by) == FillNaCounts(Melt(Unstack(GroupSize(d, by))))

create_heatmap_fig(d, filter_variable, obesity_category) ==
    IF filter_variable \notin Columns THEN KeyError
    ELSE LET melted_df   == MeltedCounts(d, <<"nobeyesdad", "age_group", filter_variable>>)
             category_df == WhereClass(melted_df, obesity_category)
         IN  IF filter_variable \notin variables_dict_index THEN KeyError
             ELSE Success([melted_df |-> melted_df,
                           source    |-> category_df,
                           high      |-> MaxSeq(CountsColumn(melted_df)),
                           x_range   |-> Unique(IdColumn(melted_df, 2)),
                           y_range   |-> Unique(VarColumn(melted_df))])

\* x of the grouped bar plot: one label per gender and category, gender first
GroupedLabels(genders, cats) ==
    [p \in 1..(Len(genders) * Len(cats)) |->
        <<genders[((p - 1) \div Len(cats)) + 1], cats[((p - 1) % Len(cats)) + 1]>>]

create_bar_plot(d, filter_variable, obesity_category) ==
    IF filter_variable \notin Columns THEN KeyError
    ELSE LET melted_df ==
                 IF filter_variable = "gender"
                 THEN MeltedCounts(d, <<"nobeyesdad", "gender">>)
                 ELSE MeltedCounts(d, <<"nobeyesdad", "gender", filter_variable>>)
             obesity_df == WhereClass(melted_df, obesity_category)
             x == IF filter_variable = "gender"
                  THEN Unique(VarColumn(obesity_df))
                  ELSE GroupedLabels(Unique(IdColumn(obesity_df, 2)),
                                     Unique(VarColumn(obesity_df)))
         IN  IF filter_variable \notin variables_dict_index THEN KeyError
             ELSE Success([melted_df |-> melted_df,
                           y_max     |-> MaxSeq(CountsColumn(melted_df)),
                           x         |-> x,
                           counts    |-> CountsColumn(obesity_df),
                           factors   |-> Unique(VarColumn(melted_df))])

\* one line of the line plot: the rows of grouped_df of one obesity class;
\* y sums every column of the row but nobeyesdad
LineOf(grouped_df, obesity_category) ==
    LET rows == {i \in 1..Len(grouped_df.index) :
                    grouped_df.index[i][1] = obesity_category}
        subset_index  == FilterSeq(grouped_df.index, rows)
        subset_values == FilterSeq(grouped_df.values, rows)
    IN  [legend_label |-> obesity_category,
         x |-> [i \in 1..Len(subset_index) |-> subset_index[i][2]],
         y |-> [i \in 1..Len(subset_index) |->
                    subset_index[i][2] + SumSeq(subset_values[i])]]

create_line_plot(d, filter_variable) ==
    IF filter_variable \notin Columns THEN KeyError
    ELSE LET grouped_df ==
                 FillNaWide(Unstack(GroupSize(d, <<"nobeyesdad", "age", filter_variable>>)))
             classes == Unique([i \in 1..Len(grouped_df.index) |-> grouped_df.index[i][1]])
         IN  Success([grouped_df |-> grouped_df,
                      lines |-> [k \in 1..Len(classes) |-> LineOf(grouped_df, classes[k])]])

\* melted_df.groupby(['gender']).sum(): per gender (sorted), the sum of counts
SumByGender(melted) ==
    LET genders == SortedKeys({<<melted[p].var>> : p \in 1..Len(melted)})
    IN  [k \in 1..Len(genders) |->
            [gender |-> genders[k][1],
             counts |-> SumSeq(CountsColumn(
                            FilterSeq(melted, {p \in 1..Len(melted) :
                                                melted[p].var = genders[k][1]})))]]

create_pie_chart_plot(d, filter_variable) ==
    LET by_variable == IF filter_variable = "gender" THEN "nobeyesdad" ELSE filter_variable
    IN  IF by_variable \notin Columns THEN KeyError
        ELSE LET melted_df == MeltedCounts(d, <<by_variable, "gender">>)
                 summed    == SumByGender(melted_df)
                 total     == SumSeq([k \in 1..Len(summed) |-> summed[k].counts])
             IN  IF by_variable \notin variables_dict_index THEN KeyError
                 ELSE Success([melted_df |-> melted_df,
                               wedges |-> [k \in 1..Len(summed) |->
                                   [gender |-> summed[k].gender,
                                    counts |-> summed[k].counts,
                                    \* angle = counts / counts.sum() * 2 * pi
                                    angle  |-> [num |-> summed[k].counts, den |-> total]]]])

\* dashboard.update_plots_index: the four builders in order; the first
\* exception ends the request
update_plots_index(d, filter_variable, obesity_category) ==
    LET heatmap == create_heatmap_fig(d, filter_variable, obesity_category)
        barplot == create_bar_plot(d, filter_variable, obesity_category)
        line    == create_line_plot(d, filter_variable)
        pie     == create_pie_chart_plot(d, filter_variable)
    IN  IF ~heatmap.ok THEN heatmap
        ELSE IF ~barplot.ok THEN barplot
        ELSE IF ~line.ok THEN line
        ELSE IF ~pie.ok THEN pie
        ELSE Success(<<heatmap.charts, barplot.charts, line.charts, pie.charts>>)

-----------------------------------------------------------------------------
(* plots_page2.py: the donut chart.                                        *)

\* the keys of plots_page2.variables_dict
variables_dict_page2 ==
    {"smoke", "calc", "gender", "scc", "faf", "tue", "mtrans", "nobeyesdad",
     "age_group", "age"}

\* a sort_values that leaves the rows as they are
SortValuesNoop(d, col) == {d}

\* a sort that writes the first row over every row
SortValuesOverwriting(d, col) == {[i \in 1..Len(d) |-> d[1]]}

\* df.sort_values(by=col, inplace=True): the rows reordered so that col
\* ascends.  The default kind is quicksort, which is not stable: rows with
\* equal col may end in any order.
SortValues(d, col) ==
    {[i \in 1..Len(d) |-> d[f[i]]] :
        f \in {g \in Orders(Len(d)) :
                \A i, j \in 1..Len(d) : i < j => d[g[i]][col] <= d[g[j]][col]}}

\* the order a stable sort gives positions 1..Len(keys): by key, then by position
StableOrder(keys) ==
    LET sorted == SortedKeys({<<keys[i], i>> : i \in 1..Len(keys)})
    IN  [i \in 1..Len(keys) |-> sorted[i][2]]

\* grouped_df.sort_values(by=<level k of the row key>) with reset_index: the
\* wide table has fewer than 16 rows, for which quicksort is an insertion
\* sort and keeps equal keys in order
SortWideBy(wide, k) ==
    LET order == StableOrder([i \in 1..Len(wide.index) |-> wide.index[i][k]])
    IN  [wide EXCEPT !.index  = [i \in 1..Len(order) |-> wide.index[order[i]]],
                     !.values = [i \in 1..Len(order) |-> wide.values[order[i]]]]

\* position of column value c among the columns of a wide table
ColumnAt(wide, c) == CHOOSE j \in 1..Len(wide.columns) : wide.columns[j] = c

\* lines 71-79: the wide count table, zero-filled and sorted by the binary
\* variable
DonutGrouped(d, filter_variable, binary_variable) ==
    SortWideBy(
        FillNaWide(Unstack(GroupSize(d,
            <<"nobeyesdad", binary_variable, filter_variable>>))), 2)

\* lines 82-261: reads df[filter_variable].unique() from the shared DataFrame
\* d and draws one bar per category and row of grouped_df
DonutFigure(grouped_df, d, filter_variable, binary_variable) ==
    LET filter_variable_categories == Unique(Column(d, filter_variable))
        binary_categories ==
            Unique([i \in 1..Len(grouped_df.index) |-> grouped_df.index[i][2]])
    IN  \* colors_list holds two colors: a third category has none
        IF Len(binary_categories) > 2 THEN KeyError
        ELSE IF filter_variable \notin variables_dict_page2
                \/ binary_variable \notin variables_dict_page2 THEN KeyError
        ELSE Success([grouped_df |-> grouped_df,
                      filter_variable_categories |-> filter_variable_categories,
                      binary_variable_colors |-> binary_categories,
                      bars |-> [i \in 1..Len(filter_variable_categories) |->
                          [legend_label |-> filter_variable_categories[i],
                           counts |-> [r \in 1..Len(grouped_df.index) |->
                               grouped_df.values[r][
                                   ColumnAt(grouped_df, filter_variable_categories[i])]]]]])

\* create_donut_chart_plot reading the categories of the inner layer from the
\* DataFrame as it was before the sort
create_donut_chart_plot_stale(d, filter_variable, binary_variable) ==
    IF filter_variable \notin Columns
    THEN {[df |-> d, result |-> KeyError]}
    ELSE {[df |-> sorted_df,
           result |->
               IF binary_variable \notin Columns THEN KeyError
               ELSE DonutFigure(
                        DonutGrouped(sorted_df, filter_variable, binary_variable),
                        d, filter_variable, binary_variable)] :
            sorted_df \in SortValues(d, filter_variable)}

\* what a call of create_donut_chart_plot on the shared DataFrame d can
\* leave behind: the DataFrame after the call and the chart or the failure.
\* Line 67 sorts d in place before anything else reads it.
create_donut_chart_plot(d, filter_variable, binary_variable) ==
    IF filter_variable \notin Columns
    THEN {[df |-> d, result |-> KeyError]}
    ELSE {[df |-> sorted_df,
           result |->
               IF binary_variable \notin Columns THEN KeyError
               ELSE DonutFigure(
                        DonutGrouped(sorted_df, filter_variable, binary_variable),
                        sorted_df, filter_variable, binary_variable)] :
            sorted_df \in SortValues(d, filter_variable)}

-----------------------------------------------------------------------------
(* plots_page3.py: the Sankey diagram and the crosstab chart.              *)

\* the keys of plots_page3.variables_dict
variables_dict_page3 ==
    {"family_history_with_overweight", "gender", "hypertension", "heart_disease",
     "diabetes", "nobeyesdad", "age_group", "age"}

\* the columns create_sankey_df and create_crosstab_dfs select and group by
page3_columns ==
    <<"gender", "family_history_with_overweight", "hypertension", "heart_disease",
      "diabetes", "nobeyesdad", "age_group">>

\* the filter variables both page 3 charts are built for
filter_variables ==
    <<"family_history_with_overweight", "hypertension", "heart_disease", "diabetes">>

\* the levels of a key of the table grouped by page3_columns that the
\* columns by name
LevelOf(col) == CHOOSE j \in 1..Len(page3_columns) : page3_columns[j] = col
LevelsOf(key, by) == [j \in 1..Len(by) |-> key[LevelOf(by[j])]]

\* grouped_df.groupby(by)['counts'].count(): the number of grouped rows of
\* each key in place of the sum of their counts
SumCountsCounting(grouped, by, keys) ==
    [k \in 1..Len(keys) |->
        [key   |-> keys[k],
         value |-> Cardinality({g \in 1..Len(grouped) :
                      LevelsOf(grouped[g].key, by) = keys[k]})]]

\* grouped_df.groupby(by)['counts'].sum().reset_index() on the table
\* df.groupby(page3_columns).size().reset_index(name='counts')
SumCountsAt(grouped, by, keys) ==
    [k \in 1..Len(keys) |->
        [key   |-> keys[k],
         value |-> SumSeq([g \in 1..Len(grouped) |->
                      IF LevelsOf(grouped[g].key, by) = keys[k]
                      THEN grouped[g].size ELSE 0])]]

SumCounts(grouped, by) ==
    SumCountsAt(grouped, by,
                SortedKeys({LevelsOf(grouped[k].key, by) : k \in 1..Len(grouped)}))

\* the rows of one level, renamed to source, target, value, filter_variable
Links(level, filter_variable) ==
    [k \in 1..Len(level) |->
        [source |-> level[k].key[1], target |-> level[k].key[2],
         value |-> level[k].value, filter_variable |-> filter_variable]]

\* sort_values(by='age_group') of a level whose key holds age_group at level k
SortLevelBy(level, k) ==
    LET order == StableOrder([i \in 1..Len(level) |-> level[i].key[k]])
    IN  [i \in 1..Len(order) |-> level[order[i]]]

RECURSIVE SankeyRows(_, _)
\* the loop of create_sankey_df over the filter variables
SankeyRows(grouped, variables) ==
    IF variables = <<>> THEN <<>>
    ELSE LET filter_variable == Head(variables)
             gender_variable_df == SumCounts(grouped, <<filter_variable, "gender">>)
             age_gender_df  == SortLevelBy(SumCounts(grouped, <<"gender", "age_group">>), 2)
             obesity_age_df == SortLevelBy(SumCounts(grouped, <<"age_group", "nobeyesdad">>), 1)
         IN  Links(gender_variable_df, filter_variable)
                \o Links(age_gender_df, filter_variable)
                \o Links(obesity_age_df, filter_variable)
                \o SankeyRows(grouped, Tail(variables))

create_sankey_df(d, variables) == SankeyRows(GroupSize(d, page3_columns), variables)

\* sankey_df[sankey_df['filter_variable'].isin(['connections', filter_variable])]
FilterSankey(sankey_df, filter_variable) ==
    FilterSeq(sankey_df, {k \in 1..Len(sankey_df) :
        sankey_df[k].filter_variable \in {"connections", filter_variable}})

create_sankey_plot(d, filter_variable) ==
    IF filter_variable \notin variables_dict_page3 THEN KeyError
    ELSE Success([data |-> FilterSankey(create_sankey_df(d, filter_variables),
                                        filter_variable)])

\* a proportion a / b, kept as the fraction num / den; 0 / 0 and NaN / b are
\* NaN, written as the fraction with den = 0
Divide(a, b) ==
    IF a = NaN \/ b = 0 THEN [num |-> 0, den |-> 0] ELSE [num |-> a, den |-> b]

\* table.fillna(0) on a proportion
FillNaProportion(q) == IF q.den = 0 THEN [num |-> 0, den |-> 1] ELSE q

\* the sum pandas takes of a row or column: NaN cells are skipped
SumSkipNa(s) == SumSeq([i \in 1..Len(s) |-> IF s[i] = NaN THEN 0 ELSE s[i]])

\* pd.crosstab(sub_df[filter_variable], sub_df['nobeyesdad'], values=counts,
\* aggfunc='sum'): the sums per (category, class); NaN where no row has both
CrosstabCell(cells, r, c) ==
    IF \E k \in 1..Len(cells) : cells[k].key = r \o c
    THEN (CHOOSE cell \in {cells[k] : k \in 1..Len(cells)} : cell.key = r \o c).value
    ELSE NaN

CrosstabOf(cells, index, columns) ==
    [index   |-> [i \in 1..Len(index) |-> index[i][1]],
     columns |-> [j \in 1..Len(columns) |-> columns[j][1]],
     values  |-> [i \in 1..Len(index) |->
                    [j \in 1..Len(columns) |-> CrosstabCell(cells, index[i], columns[j])]]]

CrosstabOfCells(cells) ==
    CrosstabOf(cells,
               SortedKeys({<<cells[k].key[1]>> : k \in 1..Len(cells)}),
               SortedKeys({<<cells[k].key[2]>> : k \in 1..Len(cells)}))

Crosstab(grouped, filter_variable) ==
    CrosstabOfCells(SumCounts(grouped, <<filter_variable, "nobeyesdad">>))

\* normalize="all": every cell divided by the sum of the whole table
NormalizeAll(table) ==
    [table EXCEPT !.values =
        [i \in 1..Len(table.index) |->
            [j \in 1..Len(table.columns) |->
                FillNaProportion(Divide(table.values[i][j],
                    SumSeq([r \in 1..Len(table.index) |-> SumSkipNa(table.values[r])])))]]]

\* normalize="index": every cell divided by the sum of its row, then fillna(0)
NormalizeIndex(table) ==
    [table EXCEPT !.values =
        [i \in 1..Len(table.index) |->
            [j \in 1..Len(table.columns) |->
                FillNaProportion(Divide(table.values[i][j],
                                        SumSkipNa(table.values[i])))]]]

\* the margins divided by the number of categories instead of their sum
NormalizeMarginByLength(table) ==
    [i \in 1..Len(table.index) |->
        FillNaProportion(Divide(SumSkipNa(table.values[i]), Len(table.index)))]

\* margins=True, normalize="columns", .All: the margin of every row (the sum
\* of the row) divided by the sum of the margins, then fillna(0)
MarginShares(column_margin) ==
    [i \in 1..Len(column_margin) |->
        FillNaProportion(Divide(column_margin[i], SumSeq(column_margin)))]

NormalizeMargin(table) ==
    MarginShares([i \in 1..Len(table.index) |-> SumSkipNa(table.values[i])])

\* the rows one filter variable adds to crosstab_df and totals_df
LabelledRows(variable_crosstab, totals, filter_variable) ==
    [i \in 1..Len(variable_crosstab.index) |->
        [category        |-> variable_crosstab.index[i],
         classes         |-> variable_crosstab.columns,
         proportions     |-> variable_crosstab.values[i],
         All             |-> totals[i],
         filter_variable |-> filter_variable]]

VariableRows(table, filter_variable) ==
    LabelledRows(NormalizeIndex(table), NormalizeMargin(table), filter_variable)

RECURSIVE CrosstabRows(_, _)
\* the loop of create_crosstab_dfs over the filter variables: the rows of
\* crosstab_df and of totals_df, one per category of every filter variable
CrosstabRows(grouped, variables) ==
    IF variables = <<>> THEN <<>>
    ELSE VariableRows(Crosstab(grouped, Head(variables)), Head(variables))
             \o CrosstabRows(grouped, Tail(variables))

create_crosstab_dfs(d, variables) == CrosstabRows(GroupSize(d, page3_columns), variables)

\* crosstab_df[crosstab_df['filter_variable'] == filter_variable], and the
\* same rows of totals_df
FilterCrosstab(dfs, filter_variable) ==
    FilterSeq(dfs, {k \in 1..Len(dfs) : dfs[k].filter_variable = filter_variable})

CrosstabSources(filtered) ==
    [filtered_crosstab_df |->
         [k \in 1..Len(filtered) |->
             [category    |-> filtered[k].category,
              classes     |-> filtered[k].classes,
              proportions |-> filtered[k].proportions]],
     filtered_totals_df |->
         [k \in 1..Len(filtered) |->
             [category |-> filtered[k].category,
              All      |-> filtered[k].All]]]

create_crosstab_plot(d, filter_variable) ==
    IF filter_variable \notin variables_dict_page3 THEN KeyError
    ELSE Success(CrosstabSources(
             FilterCrosstab(create_crosstab_dfs(d, filter_variables), filter_variable)))

\* dashboard.update_plots_page3
Page3Figures(sankey, crosstab) ==
    IF ~sankey.ok THEN sankey
    ELSE IF ~crosstab.ok THEN crosstab
    ELSE Success(<<sankey.charts, crosstab.charts>>)

update_plots_page3(d, filter_variable) ==
    Page3Figures(create_sankey_plot(d, filter_variable),
                 create_crosstab_plot(d, filter_variable))

-----------------------------------------------------------------------------
(* dashboard.py: the request handlers, one request at a time.              *)

\* values a client can post in the dropdown fields: a column the page knows,
\* a column of the Dataset the page's dictionary lacks, and no column at all
IndexVariables == {"ncp", "gender", "mtrans", "no_such_column"}
ObesityCategories == 1..2
Page2Categoricals == {"mtrans", "age_group", "ncp", "no_such_column"}
Page2Binaries == {"gender", "no_such_column"}
Page3Variables == {"hypertension", "diabetes", "mtrans", "no_such_column"}

NoRequest ==
    [page |-> "none", filter_variable |-> "", obesity_category |-> 0,
     binary_variable |-> ""]

IndexRequest(v, o) ==
    [page |-> "index", filter_variable |-> v, obesity_category |-> o,
     binary_variable |-> ""]
Page2Request(v, b) ==
    [page |-> "page2", filter_variable |-> v, obesity_category |-> 0,
     binary_variable |-> b]
Page3Request(v) ==
    [page |-> "page3", filter_variable |-> v, obesity_category |-> 0,
     binary_variable |-> ""]

NoResult == [ok |-> FALSE, error |-> "", charts |-> <<>>]

\* the process after start-up: df = pd.read_parquet('final_dataset.parquet')
Loaded(max) ==
    /\ df \in Datasets(max)
    /\ loaded = df
    /\ lastReq = NoRequest
    /\ result = NoResult
    /\ pc = <<>>
    /\ req = <<>>
    /\ acc = <<>>

Init == Loaded(MaxSharedRows)

InitOnce == Loaded(MaxRows)

\* dashboard.index, up to the rendering of its response
index(selected_variable, selected_obesity) ==
    /\ lastReq = NoRequest
    /\ result' = update_plots_index(df, selected_variable, selected_obesity)
    /\ lastReq' = IndexRequest(selected_variable, selected_obesity)
    /\ UNCHANGED <<df, loaded, pc, req, acc>>

\* dashboard.page2, with update_plots_page2 and the in-place sort that
\* create_donut_chart_plot starts with
page2(selected_categorical, selected_binary) ==
    /\ lastReq = NoRequest
    /\ \E done \in create_donut_chart_plot(df, selected_categorical, selected_binary) :
          /\ df' = done.df
          /\ result' = done.result
    /\ lastReq' = Page2Request(selected_categorical, selected_binary)
    /\ UNCHANGED <<loaded, pc, req, acc>>

\* dashboard.page3
page3(selected_variable) ==
    /\ lastReq = NoRequest
    /\ result' = update_plots_page3(df, selected_variable)
    /\ lastReq' = Page3Request(selected_variable)
    /\ UNCHANGED <<df, loaded, pc, req, acc>>

\* render_template returns: the response (or the error page) leaves the
\* process and the handler's locals are dropped
respond ==
    /\ lastReq # NoRequest
    /\ lastReq' = NoRequest
    /\ result' = NoResult
    /\ UNCHANGED <<df, loaded, pc, req, acc>>

Next ==
    \/ respond
    \/ \E v \in IndexVariables, o \in ObesityCategories : index(v, o)
    \/ \E v \in Page2Categoricals, b \in Page2Binaries : page2(v, b)
    \/ \E v \in Page3Variables : page3(v)

\* the process serving requests one after the other
Spec == Init /\ [][Next]_vars

\* one request served on the Dataset as loaded
NextOnce ==
    \/ \E v \in IndexVariables, o \in ObesityCategories : index(v, o)
    \/ \E v \in Page2Categoricals, b \in Page2Binaries : page2(v, b)
    \/ \E v \in Page3Variables : page3(v)

SpecOnce == InitOnce /\ [][NextOnce]_vars

-----------------------------------------------------------------------------
(* Requests served by concurrent threads of the one process.  Every thread  *)
(* runs its handler statement by statement on the shared df; the statements *)
(* of different threads interleave.                                         *)

Threads == {1, 2}

\* the requests in flight together
ConcurrentRequests ==
    {IndexRequest("ncp", 1),
     Page2Request("mtrans", "gender"),
     Page2Request("age_group", "gender"),
     Page2Request("mtrans", "no_such_column"),
     Page2Request("no_such_column", "gender"),
     Page3Request("hypertension")}

\* the handler's locals: the charts built so far and the response
NoLocals == [built |-> <<>>, response |-> NoResult]

InitConc ==
    /\ df \in Datasets(MaxSharedRows)
    /\ loaded = df
    /\ lastReq = NoRequest
    /\ result = NoResult
    /\ pc = [t \in Threads |-> "idle"]
    /\ req = [t \in Threads |-> NoRequest]
    /\ acc = [t \in Threads |-> NoLocals]

\* a thread picks up a request and enters its handler
receive(t, r) ==
    /\ pc[t] = "idle"
    /\ req' = [req EXCEPT ![t] = r]
    /\ acc' = [acc EXCEPT ![t] = NoLocals]
    /\ pc' = [pc EXCEPT ![t] = CASE r.page = "index" -> "heatmap"
                                 [] r.page = "page2" -> "sort"
                                 [] OTHER -> "sankey"]
    /\ UNCHANGED <<df, loaded, lastReq, result>>

\* the thread built chart (or failed to) and moves on to the statement next
Built(t, chart, next) ==
    IF ~chart.ok
    THEN /\ acc' = [acc EXCEPT ![t].response = chart]
         /\ pc' = [pc EXCEPT ![t] = "done"]
    ELSE LET built == Append(acc[t].built, chart.charts)
         IN  IF next = "done"
             THEN /\ acc' = [acc EXCEPT ![t] =
                                [built |-> built, response |-> Success(built)]]
                  /\ pc' = [pc EXCEPT ![t] = "done"]
             ELSE /\ acc' = [acc EXCEPT ![t].built = built]
                  /\ pc' = [pc EXCEPT ![t] = next]

\* update_plots_index, one chart builder at a time
index_heatmap(t) ==
    /\ pc[t] = "heatmap"
    /\ Built(t, create_heatmap_fig(df, req[t].filter_variable, req[t].obesity_category),
             "bar")
    /\ UNCHANGED <<df, loaded, lastReq, result, req>>

index_bar(t) ==
    /\ pc[t] = "bar"
    /\ Built(t, create_bar_plot(df, req[t].filter_variable, req[t].obesity_category),
             "line")
    /\ UNCHANGED <<df, loaded, lastReq, result, req>>

index_line(t) ==
    /\ pc[t] = "line"
    /\ Built(t, create_line_plot(df, req[t].filter_variable), "pie")
    /\ UNCHANGED <<df, loaded, lastReq, result, req>>

index_pie(t) ==
    /\ pc[t] = "pie"
    /\ Built(t, create_pie_chart_plot(df, req[t].filter_variable), "done")
    /\ UNCHANGED <<df, loaded, lastReq, result, req>>

\* create_donut_chart_plot: df.sort_values(by=filter_variable, inplace=True)
donut_sort(t) ==
    /\ pc[t] = "sort"
    /\ IF req[t].filter_variable \notin Columns
       THEN /\ acc' = [acc EXCEPT ![t].response = KeyError]
            /\ pc' = [pc EXCEPT ![t] = "done"]
            /\ df' = df
       ELSE /\ df' \in SortValues(df, req[t].filter_variable)
            /\ pc' = [pc EXCEPT ![t] = "group"]
            /\ acc' = acc
    /\ UNCHANGED <<loaded, lastReq, result, req>>

\* create_donut_chart_plot: grouped_df, built from the df of this moment
donut_group(t) ==
    /\ pc[t] = "group"
    /\ IF req[t].binary_variable \notin Columns
       THEN /\ acc' = [acc EXCEPT ![t].response = KeyError]
            /\ pc' = [pc EXCEPT ![t] = "done"]
       ELSE /\ acc' = [acc EXCEPT ![t].built =
                          <<DonutGrouped(df, req[t].filter_variable,
                                         req[t].binary_variable)>>]
            /\ pc' = [pc EXCEPT ![t] = "figure"]
    /\ UNCHANGED <<df, loaded, lastReq, result, req>>

\* create_donut_chart_plot: the categories read from the df of this moment,
\* and the figure
donut_figure(t) ==
    /\ pc[t] = "figure"
    /\ acc' = [acc EXCEPT ![t].response =
                  DonutFigure(acc[t].built[1], df, req[t].filter_variable,
                              req[t].binary_variable)]
    /\ pc' = [pc EXCEPT ![t] = "done"]
    /\ UNCHANGED <<df, loaded, lastReq, result, req>>

\* update_plots_page3, one chart builder at a time
page3_sankey(t) ==
    /\ pc[t] = "sankey"
    /\ Built(t, create_sankey_plot(df, req[t].filter_variable), "crosstab")
    /\ UNCHANGED <<df, loaded, lastReq, result, req>>

page3_crosstab(t) ==
    /\ pc[t] = "crosstab"
    /\ Built(t, create_crosstab_plot(df, req[t].filter_variable), "done")
    /\ UNCHANGED <<df, loaded, lastReq, result, req>>

NextConc ==
    \E t \in Threads :
        \/ \E r \in ConcurrentRequests : receive(t, r)
        \/ index_heatmap(t)
        \/ index_bar(t)
        \/ index_line(t)
        \/ index_pie(t)
        \/ donut_sort(t)
        \/ donut_group(t)
        \/ donut_figure(t)
        \/ page3_sankey(t)
        \/ page3_crosstab(t)

SpecConc == InitConc /\ [][NextConc]_vars

-----------------------------------------------------------------------------
(* What the claims speak of.                                               *)

\* the results request r can have when it is the first request served on
\* Dataset d
Outcomes(d, r) ==
    CASE r.page = "index" ->
            {update_plots_index(d, r.filter_variable, r.obesity_category)}
      [] r.page = "page2" ->
            {done.result :
                done \in create_donut_chart_plot(d, r.filter_variable, r.binary_variable)}
      [] r.page = "page3" ->
            {update_plots_page3(d, r.filter_variable)}
      [] OTHER -> {NoResult}

\* the values of column col that occur in d
Observed(d, col) == {d[i][col] : i \in 1..Len(d)}

\* the number of rows of d whose columns by hold key
RowsWith(d, by, key) == Cardinality({i \in 1..Len(d) : KeyOf(d[i], by) = key})

\* the rows of d in the one order that depends on the rows alone: ascending
\* by every column
Canonical(d) ==
    LET AllColumns == <<"nobeyesdad", "gender", "age_group", "age", "ncp", "mtrans",
                        "family_history_with_overweight", "hypertension",
                        "heart_disease", "diabetes">>
        sorted == SortedKeys({KeyOf(d[i], AllColumns) \o <<i>> : i \in 1..Len(d)})
    IN  [i \in 1..Len(d) |-> d[sorted[i][Len(AllColumns) + 1]]]

\* every combination of values that the columns fixed take somewhere in d
\* (one or two columns)
Combinations(d, fixed) ==
    IF Len(fixed) = 1
    THEN {<<a>> : a \in Observed(d, fixed[1])}
    ELSE {<<a, b>> : a \in Observed(d, fixed[1]), b \in Observed(d, fixed[2])}

\* the entries of a melted table for row key id and category v
Entries(melted, id, v) ==
    {p \in 1..Len(melted) : melted[p].id = id /\ melted[p].var = v}

\* the grouping columns of the tidy tables an index request builds
HeatmapBy(v) == <<"nobeyesdad", "age_group", v>>
BarBy(v) == IF v = "gender" THEN <<"nobeyesdad", "gender">>
            ELSE <<"nobeyesdad", "gender", v>>
LineBy(v) == <<"nobeyesdad", "age", v>>
PieBy(v) == <<IF v = "gender" THEN "nobeyesdad" ELSE v, "gender">>
DonutBy(v, b) == <<"nobeyesdad", b, v>>

IndexDone == lastReq.page = "index" /\ result.ok
Page2Done == lastReq.page = "page2" /\ result.ok
Page3Done == lastReq.page = "page3" /\ result.ok

\* the tidy (melted) count tables of the index request just served, each with
\* its grouping columns
TidyTables ==
    LET v == lastReq.filter_variable
    IN  {[table |-> result.charts[1].melted_df, by |-> HeatmapBy(v)],
         [table |-> result.charts[2].melted_df, by |-> BarBy(v)],
         [table |-> result.charts[4].melted_df, by |-> PieBy(v)]}

\* the wide count tables of the request just served (line plot, donut)
WideTables ==
    IF lastReq.page = "index"
    THEN {[table |-> result.charts[3].grouped_df, by |-> LineBy(lastReq.filter_variable)]}
    ELSE {[table |-> result.charts.grouped_df,
           by |-> DonutBy(lastReq.filter_variable, lastReq.binary_variable)]}

\* a melted table holds exactly one entry for every combination of the
\* values observed in each of its grouping columns
FullProduct(melted, d, by) ==
    \A id \in Combinations(d, Front(by)) :
        \A v \in Observed(d, Last(by)) :
            Cardinality(Entries(melted, id, v)) = 1

\* a wide table holds a cell for every such combination
FullProductWide(wide, d, by) ==
    \A id \in Combinations(d, Front(by)) :
        \A v \in Observed(d, Last(by)) :
            /\ \E i \in 1..Len(wide.index) : wide.index[i] = id
            /\ \E j \in 1..Len(wide.columns) : wide.columns[j] = v

-----------------------------------------------------------------------------
(* C1: after any sequence of requests the shared Dataset is the Dataset as  *)
(* loaded, rows and row order included.  The donut chart's in-place sort    *)
(* breaks it.                                                               *)
C1_DatasetNeverModified == df = loaded

-----------------------------------------------------------------------------
(* C2: requests in flight together need no coordination: each returns the   *)
(* chart data it returns when run alone on the Dataset as loaded.  One      *)
(* donut request re-sorting the shared Dataset between another donut        *)
(* request's sort and its reading of the categories breaks it.              *)
C2_ConcurrentSameAsAlone ==
    \A t \in Threads :
        pc[t] = "done" => acc[t].response \in Outcomes(loaded, req[t])

-----------------------------------------------------------------------------
(* C3: whatever requests came before, a request has the one outcome it has  *)
(* when it is the first request served on the Dataset as loaded: the same   *)
(* chart tables in the same order, or the same failure.                     *)
C3_OutcomeIndependentOfHistory ==
    lastReq # NoRequest => Outcomes(loaded, lastReq) = {result}

\* a chart request answered after earlier requests reordered the Dataset
C3_Witness ==
    /\ lastReq.page = "index"
    /\ result.ok
    /\ df # loaded

-----------------------------------------------------------------------------
(* C4: every chart built from three grouping columns has a zero-filled      *)
(* count table with one entry for every element of the Cartesian product of *)
(* the values observed in the three columns, also for a pair of values of   *)
(* the first two columns that never occur together.  The tables hold only   *)
(* the pairs of the first two columns that occur.                           *)
C4_FullCartesianProduct ==
    /\ IndexDone =>
          /\ FullProduct(result.charts[1].melted_df, loaded,
                         HeatmapBy(lastReq.filter_variable))
          /\ lastReq.filter_variable # "gender" =>
                FullProduct(result.charts[2].melted_df, loaded,
                            BarBy(lastReq.filter_variable))
    /\ Page2Done =>
          FullProductWide(result.charts.grouped_df, loaded,
                          DonutBy(lastReq.filter_variable, lastReq.binary_variable))

-----------------------------------------------------------------------------
(* C5: a two-column grouping (bar plot for gender; pie chart) gives, after  *)
(* group, unstack, melt and zero-fill, exactly (values of the first column) *)
(* x (values of the second) rows, one per pair, with count 0 for a pair     *)
(* that no Dataset row has.                                                 *)
TwoColumnTables ==
    {t \in TidyTables : Len(t.by) = 2}

C5_TwoColumnProduct ==
    IndexDone =>
        \A t \in TwoColumnTables :
            /\ Len(t.table) = Cardinality(Observed(loaded, t.by[1]))
                                * Cardinality(Observed(loaded, t.by[2]))
            /\ FullProduct(t.table, loaded, t.by)
            /\ \A p \in 1..Len(t.table) :
                  t.table[p].counts
                      = RowsWith(loaded, t.by, t.table[p].id \o <<t.table[p].var>>)

\* the bar plot for gender holds a pair that no row has, with count 0
C5_Witness ==
    /\ IndexDone
    /\ lastReq.filter_variable = "gender"
    /\ \E p \in 1..Len(result.charts[2].melted_df) :
          /\ result.charts[2].melted_df[p].counts = 0
          /\ RowsWith(loaded, <<"nobeyesdad", "gender">>,
                      result.charts[2].melted_df[p].id
                          \o <<result.charts[2].melted_df[p].var>>) = 0
    /\ Len(result.charts[2].melted_df) = 4

-----------------------------------------------------------------------------
(* C6: count conservation.  In every tidy count table the counts of one     *)
(* combination of fixed-dimension values, summed over the variable          *)
(* categories, are the number of Dataset rows with that combination, and    *)
(* the counts of the whole table sum to the number of Dataset rows.         *)
CountsOf(melted, id) ==
    SumSeq([p \in 1..Len(melted) |-> IF melted[p].id = id THEN melted[p].counts ELSE 0])

C6_CountConservation ==
    IndexDone =>
        \A t \in TidyTables :
            /\ \A id \in Combinations(loaded, Front(t.by)) :
                  CountsOf(t.table, id) = RowsWith(loaded, Front(t.by), id)
            /\ SumSeq(CountsColumn(t.table)) = Len(loaded)

\* a heatmap table in which one fixed combination collects two rows of the
\* Dataset from two categories
C6_Witness ==
    /\ IndexDone
    /\ lastReq.filter_variable = "ncp"
    /\ \E id \in Combinations(loaded, <<"nobeyesdad", "age_group">>) :
          /\ CountsOf(result.charts[1].melted_df, id) = 2
          /\ \A p \in 1..Len(result.charts[1].melted_df) :
                result.charts[1].melted_df[p].counts <= 1

-----------------------------------------------------------------------------
(* C7: every cell of a count table handed to a chart holds a non-negative   *)
(* integer, the number of Dataset rows with the cell's combination of       *)
(* values; no cell is left missing (NaN) after the reshaping.               *)
C7_CellsAreRowCounts ==
    /\ IndexDone =>
          /\ \A t \in TidyTables :
                \A p \in 1..Len(t.table) :
                    /\ t.table[p].counts \in Nat
                    /\ t.table[p].counts
                          = RowsWith(loaded, t.by, t.table[p].id \o <<t.table[p].var>>)
          /\ \A k \in 1..Len(result.charts[4].wedges) :
                result.charts[4].wedges[k].counts
                    = RowsWith(loaded, <<"gender">>, <<result.charts[4].wedges[k].gender>>)
    /\ (IndexDone \/ Page2Done) =>
          \A t \in WideTables :
              \A i \in 1..Len(t.table.index) :
                  \A j \in 1..Len(t.table.columns) :
                      /\ t.table.values[i][j] \in Nat
                      /\ t.table.values[i][j]
                            = RowsWith(loaded, t.by,
                                       t.table.index[i] \o <<t.table.columns[j]>>)

\* a donut table with a cell that no Dataset row fills
C7_Witness ==
    /\ Page2Done
    /\ \E i \in 1..Len(result.charts.grouped_df.index) :
          \E j \in 1..Len(result.charts.grouped_df.columns) :
              result.charts.grouped_df.values[i][j] = 0

-----------------------------------------------------------------------------
(* C8: the tables do not depend on the order of the Dataset's rows.  Every  *)
(* Dataset gives the result of its rows put in canonical order, so two      *)
(* Datasets that are permutations of each other give the same tables, rows  *)
(* and category orders included.                                            *)
C8_RowOrderIndependent ==
    (lastReq # NoRequest /\ result.ok) =>
        Outcomes(Canonical(loaded), lastReq) = {result}

\* a donut chart built from a Dataset whose rows are not in canonical order
\* and not sorted by the filter variable
C8_Witness ==
    /\ Page2Done
    /\ loaded # Canonical(loaded)
    /\ loaded \notin SortValues(loaded, lastReq.filter_variable)
    /\ Len(result.charts.filter_variable_categories) = 2

-----------------------------------------------------------------------------
(* C9: row normalization of the crosstab.  For each category of the filter  *)
(* variable the proportions over all obesity classes are (rows with         *)
(* category and class) / (rows with category) and sum to 1; a category      *)
(* whose raw total is 0 has proportion 0 in every class.                    *)
RECURSIVE ProdSeq(_)
ProdSeq(s) == IF s = <<>> THEN 1 ELSE Head(s) * ProdSeq(Tail(s))

\* the fractions of a sequence sum to 1 (exactly, over a common denominator)
SumsToOne(fractions) ==
    LET common == ProdSeq([j \in 1..Len(fractions) |-> fractions[j].den])
    IN  /\ common > 0
        /\ SumSeq([j \in 1..Len(fractions) |->
                      fractions[j].num * (common \div fractions[j].den)]) = common

\* fraction q is a / b
IsRatio(q, a, b) == q.den > 0 /\ q.num * b = a * q.den

C9_RowNormalization ==
    Page3Done =>
        LET v == lastReq.filter_variable
            crosstab == result.charts[2].filtered_crosstab_df
        IN  /\ {crosstab[k].category : k \in 1..Len(crosstab)} = Observed(loaded, v)
            /\ \A k \in 1..Len(crosstab) :
                  LET row   == crosstab[k]
                      total == RowsWith(loaded, <<v>>, <<row.category>>)
                  IN  /\ {row.classes[j] : j \in 1..Len(row.classes)}
                            = Observed(loaded, "nobeyesdad")
                      /\ total > 0 =>
                            /\ \A j \in 1..Len(row.classes) :
                                  IsRatio(row.proportions[j],
                                          RowsWith(loaded, <<v, "nobeyesdad">>,
                                                   <<row.category, row.classes[j]>>),
                                          total)
                            /\ SumsToOne(row.proportions)
                      /\ total = 0 =>
                            \A j \in 1..Len(row.classes) :
                                row.proportions[j].num = 0 /\ row.proportions[j].den > 0

\* a crosstab row that splits a category over two obesity classes, beside
\* a category that has no row in one of the classes
C9_Witness ==
    /\ Page3Done
    /\ \E k \in 1..Len(result.charts[2].filtered_crosstab_df) :
          LET row == result.charts[2].filtered_crosstab_df[k]
          IN  /\ Len(row.proportions) = 2
              /\ row.proportions[1] = [num |-> 1, den |-> 2]
              /\ row.proportions[2] = [num |-> 1, den |-> 2]
    /\ \E k \in 1..Len(result.charts[2].filtered_crosstab_df) :
          result.charts[2].filtered_crosstab_df[k].proportions[1].num = 0

-----------------------------------------------------------------------------
(* C10: margin normalization.  The 'All' total of each category of the      *)
(* filter variable is (rows with that category) / (all rows), and the       *)
(* totals of the categories sum to 1.                                       *)
C10_MarginNormalization ==
    Page3Done =>
        LET v == lastReq.filter_variable
            totals == result.charts[2].filtered_totals_df
        IN  /\ {totals[k].category : k \in 1..Len(totals)} = Observed(loaded, v)
            /\ \A k \in 1..Len(totals) :
                  IsRatio(totals[k].All,
                          RowsWith(loaded, <<v>>, <<totals[k].category>>),
                          Len(loaded))
            /\ SumsToOne([k \in 1..Len(totals) |-> totals[k].All])

\* totals of two categories of unequal size
C10_Witness ==
    /\ Page3Done
    /\ Len(result.charts[2].filtered_totals_df) = 2
    /\ result.charts[2].filtered_totals_df[1].All = [num |-> 2, den |-> 3]
    /\ result.charts[2].filtered_totals_df[2].All = [num |-> 1, den |-> 3]

-----------------------------------------------------------------------------
(* C11: a request whose filter variable (or, on page 2, binary variable)    *)
(* is no column of the Dataset ends in the KeyError the lookup raises: it   *)
(* returns no chart and no table, and nothing stands in for the column.     *)
MissingColumn(r) ==
    \/ r.filter_variable \notin Columns
    \/ r.page = "page2" /\ r.binary_variable \notin Columns

C11_MissingColumnIsError ==
    (lastReq # NoRequest /\ MissingColumn(lastReq)) =>
        /\ ~result.ok
        /\ result.error = "KeyError"
        /\ result.charts = <<>>

\* a page 3 request for a name that is no column, answered with the error
C11_Witness ==
    /\ lastReq = Page3Request("no_such_column")
    /\ ~result.ok
    /\ result.error = "KeyError"

-----------------------------------------------------------------------------
(* utils.py: nth_root and scale, and the radii the donut chart takes from   *)
(* them.  A float is kept as a whole number of 1/Resolution units (the      *)
(* real value rounded down to such a multiple), or is nan or -inf.          *)

\* the largest count handed to nth_root and scale, next to count_limit
MaxCount == 6

\* the largest root degree, next to the donut chart's n
MaxDegree == 3

\* units per 1.0 in which float results are kept
Resolution == 4

\* plots_page2.py: n, num_points and count_limit
donut_n == 4
num_points == 7
count_limit == 40000

\* the literals of min_val and max_val, and the factor inside scale
min_domain == 10
max_domain == 300000
scale_factor_in == 100

Num(q) == [kind |-> "num", q |-> q]
NotANumber == [kind |-> "nan", q |-> 0]
NegInf == [kind |-> "-inf", q |-> 0]

\* a call that returned value, and a call that raised error
Returned(value) == [raised |-> FALSE, error |-> "", value |-> value]

RECURSIVE BoundedPow(_, _, _)
\* b^e where that is at most cap, and cap + 1 otherwise (b >= 0, e >= 1)
BoundedPow(b, e, cap) ==
    IF e = 0 THEN 1
    ELSE IF b = 0 THEN 0
    ELSE IF BoundedPow(b, e - 1, cap) > cap \div b THEN cap + 1
    ELSE BoundedPow(b, e - 1, cap) * b

RECURSIVE RootSearch(_, _, _, _)
\* the largest r in lo..hi with r^n <= x
RootSearch(x, n, lo, hi) ==
    IF lo = hi THEN lo
    ELSE IF BoundedPow((lo + hi + 1) \div 2, n, x) <= x
         THEN RootSearch(x, n, (lo + hi + 1) \div 2, hi)
         ELSE RootSearch(x, n, lo, ((lo + hi + 1) \div 2) - 1)

\* the nth root of the whole number x >= 0, in 1/Resolution units
RootUnits(x, n) ==
    RootSearch(x * (Resolution ^ n), n, 0, x * (Resolution ^ n))

\* a root computed the other way round: falling as the value grows
nth_root_falling(value, n) ==
    IF value < 0 /\ n # 1 THEN NotANumber
    ELSE Num(0 - RootUnits(IF value < 0 THEN 0 ELSE value, n))

\* nth_root: np.power(value, 1/n).  A negative base with a fractional
\* exponent gives nan (numpy warns, it does not raise); 0 gives 0.
nth_root(value, n) ==
    IF value < 0 /\ n # 1 THEN NotANumber
    ELSE IF value < 0 THEN Num(value * Resolution)
    ELSE Num(RootUnits(value, n))

\* float addition
Add(x, y) ==
    IF x.kind = "nan" \/ y.kind = "nan" THEN NotANumber
    ELSE IF x.kind = "-inf" \/ y.kind = "-inf" THEN NegInf
    ELSE Num(x.q + y.q)

\* scale on a scalar: new_value is a np.float64 and is returned as computed
scale(value, min_value, max_value, n) ==
    Add(nth_root(value * scale_factor_in, n), Add(max_value, min_value))

\* scale on an array: entry by entry, then
\* new_value[new_value == -np.inf] = min_value
scale_sequence(value, min_value, max_value, n) ==
    [i \in 1..Len(value) |->
        LET new_value == Add(nth_root(value[i] * scale_factor_in, n),
                             Add(max_value, min_value))
        IN  IF new_value.kind = "-inf" THEN min_value ELSE new_value]

\* plots_page2.py: min_val, max_val
min_val == nth_root(min_domain, donut_n)
max_val == nth_root(max_domain, donut_n)

\* np.nan_to_num(radii, nan=min_val)
nan_to_num(radii, nan) ==
    [i \in 1..Len(radii) |-> IF radii[i].kind = "nan" THEN nan ELSE radii[i]]

\* plots_page2.py: radii = scale(counts, ...); radii = np.nan_to_num(radii, ...)
donut_radii(counts) ==
    nan_to_num(scale_sequence(counts, min_val, max_val, donut_n), min_val)

\* the values, degrees and ranges the functions are called with
ScaleValues == ((0 - MaxCount)..MaxCount) \cup {count_limit}
Degrees == (1..MaxDegree) \cup {donut_n}
ScaleRanges ==
    {[min_value |-> nth_root(min_domain, n), max_value |-> nth_root(max_domain, n)] :
        n \in Degrees}
    \cup {[min_value |-> Num(0), max_value |-> Num(k)] : k \in 1..2}

NoCall == [function |-> "none"]

\* no call made yet
Idle ==
    /\ df = <<>>
    /\ loaded = <<>>
    /\ lastReq = NoRequest
    /\ result = NoResult
    /\ pc = "idle"
    /\ req = NoCall
    /\ acc = <<>>

\* a call of function with arguments args that ended in outcome
Call(function, args, outcome) ==
    /\ pc = "idle"
    /\ pc' = function
    /\ req' = args
    /\ result' = outcome
    /\ UNCHANGED <<df, loaded, lastReq, acc>>

call_nth_root(value, n) ==
    Call("nth_root", [value |-> value, n |-> n], Returned(nth_root(value, n)))

call_scale(value, range, n) ==
    Call("scale",
         [value |-> value, min_value |-> range.min_value,
          max_value |-> range.max_value, n |-> n],
         Returned(scale(value, range.min_value, range.max_value, n)))

call_scale_sequence(value, range, n) ==
    Call("scale_sequence",
         [value |-> value, min_value |-> range.min_value,
          max_value |-> range.max_value, n |-> n],
         Returned(scale_sequence(value, range.min_value, range.max_value, n)))

call_donut_radii(counts) ==
    Call("donut_radii",
         [value |-> counts, min_value |-> min_val, max_value |-> max_val,
          n |-> donut_n],
         Returned(donut_radii(counts)))

NextScale ==
    \/ pc = "idle" /\ \E value \in ScaleValues, n \in Degrees : call_nth_root(value, n)
    \/ pc = "idle" /\ \E value \in ScaleValues, range \in ScaleRanges, n \in Degrees :
          call_scale(value, range, n)
    \/ pc = "idle" /\ \E a, b \in ScaleValues, range \in ScaleRanges, n \in Degrees :
          call_scale_sequence(<<a, b>>, range, n)
    \/ pc = "idle" /\ \E a, b \in ScaleValues : call_donut_radii(<<a, b>>)

\* nth_root and scale called once on any of the inputs
SpecScale == Idle /\ [][NextScale]_vars

\* a call whose value, or one of whose values, is negative under an even degree
NegativeUnderEvenRoot ==
    /\ pc \in {"nth_root", "scale", "scale_sequence", "donut_radii"}
    /\ req.n % 2 = 0
    /\ IF pc \in {"nth_root", "scale"}
       THEN req.value < 0
       ELSE \E i \in 1..Len(req.value) : req.value[i] < 0

(* C12: the nth root of a negative value with an even degree ends in a      *)
(* domain error raised to the caller: the call returns no radius, and in    *)
(* particular no floor value put in the place of the failed root.           *)
C12_DomainErrorSurfaced ==
    NegativeUnderEvenRoot => result.raised

\* a scalar call of scale with the donut chart's parameters on a count in
\* 0..count_limit
DonutScaleCall ==
    /\ pc = "scale"
    /\ req.n = donut_n
    /\ req.min_value = min_val
    /\ req.max_value = max_val
    /\ req.value \in 0..count_limit

(* C13: with the donut chart's parameters (min and max radius the 4th roots *)
(* of 10 and of 300000, n = 4, count_limit = 40000) scale maps every count  *)
(* in 0..count_limit to a radius between the min and the max radius.        *)
C13_ScaleBounded ==
    DonutScaleCall =>
        /\ result.value.kind = "num"
        /\ min_val.q <= result.value.q
        /\ result.value.q <= max_val.q

(* C14: for fixed min_value, max_value and n >= 1, scale never falls as the *)
(* count grows over 0..count_limit: a scalar call returns a number that is  *)
(* at most what scale returns for any larger count, and in a sequence the   *)
(* entry of a smaller count is at most the entry of a larger one; 0 and     *)
(* count_limit both have a numeric result.                                  *)
C14_ScaleMonotonic ==
    /\ (pc = "scale" /\ req.value \in 0..count_limit) =>
          /\ result.value.kind = "num"
          /\ \A b \in ScaleValues :
                req.value <= b =>
                    LET other == scale(b, req.min_value, req.max_value, req.n)
                    IN  other.kind = "num" /\ result.value.q <= other.q
    /\ (pc = "scale_sequence" /\ \A i \in 1..Len(req.value) : req.value[i] \in 0..count_limit) =>
          \A i, j \in 1..Len(req.value) :
              /\ result.value[i].kind = "num"
              /\ req.value[i] <= req.value[j] => result.value[i].q <= result.value[j].q

\* the sequence of the two ends of the range, scaled to a strictly larger
\* radius at count_limit than at 0
C14_Witness ==
    /\ pc = "scale_sequence"
    /\ req.value = <<0, count_limit>>
    /\ req.n = donut_n
    /\ result.value[1].kind = "num"
    /\ result.value[2].kind = "num"
    /\ result.value[1].q < result.value[2].q

(* C15: a zero count comes out as the floor of the range: every entry of a  *)
(* scaled sequence whose count is 0 is min_value, and scale of the scalar 0 *)
(* is min_value as well.                                                    *)
C15_ZeroClampedToFloor ==
    /\ (pc = "scale" /\ req.value = 0) => result.value = req.min_value
    /\ pc \in {"scale_sequence", "donut_radii"} =>
          \A i \in 1..Len(req.value) :
              req.value[i] = 0 => result.value[i] = req.min_value

-----------------------------------------------------------------------------
(* utils.py: custom_scale.  numpy computes it in float64; a float64 is kept *)
(* here as num / 2^exp, where num is a natural number of at most Mantissa   *)
(* bits written as a sequence of limbs, least significant first, and every  *)
(* operation rounds its exact result to the nearest such number, ties to    *)
(* the even one, as IEEE 754 arithmetic does.  Base to LowBits below are    *)
(* the arithmetic of natural numbers in limbs that this takes.              *)

\* the largest count_limit, next to the donut chart's
MaxLimit == 8

\* the largest num_points
MaxPoints == 8

\* bits in a limb, and in the significand of a float64
LimbBits == 14
Mantissa == 53

Base == 2 ^ LimbBits

RECURSIVE Trim(_)
\* a without its leading zero limbs
Trim(a) ==
    IF a = <<>> THEN a
    ELSE IF a[Len(a)] = 0 THEN Trim(SubSeq(a, 1, Len(a) - 1))
    ELSE a

RECURSIVE FromInt(_)
FromInt(k) == IF k = 0 THEN <<>> ELSE <<k % Base>> \o FromInt(k \div Base)

RECURSIVE ToInt(_)
ToInt(a) == IF a = <<>> THEN 0 ELSE a[1] + Base * ToInt(Tail(a))

RECURSIVE MulSmall(_, _, _)
\* a * k + carry, for k below 2^17
MulSmall(a, k, carry) ==
    IF a = <<>> THEN FromInt(carry)
    ELSE <<(a[1] * k + carry) % Base>>
            \o MulSmall(Tail(a), k, (a[1] * k + carry) \div Base)

RECURSIVE BigAdd(_, _, _)
\* a + b + carry
BigAdd(a, b, carry) ==
    IF a = <<>> /\ b = <<>> THEN FromInt(carry)
    ELSE IF a = <<>> THEN BigAdd(b, a, carry)
    ELSE IF b = <<>>
         THEN <<(a[1] + carry) % Base>>
                 \o BigAdd(Tail(a), b, (a[1] + carry) \div Base)
         ELSE <<(a[1] + b[1] + carry) % Base>>
                 \o BigAdd(Tail(a), Tail(b), (a[1] + b[1] + carry) \div Base)

RECURSIVE BigMul(_, _)
\* a * b
BigMul(a, b) ==
    IF b = <<>> THEN <<>>
    ELSE BigAdd(MulSmall(a, b[1], 0), <<0>> \o BigMul(a, Tail(b)), 0)

RECURSIVE BigPow(_, _)
\* a^n, n >= 1
BigPow(a, n) == IF n = 1 THEN a ELSE BigMul(BigPow(a, n - 1), a)

\* one step of the long division by d: the limb below the part already divided
DivLimb(high, limb, d) ==
    [q |-> <<(high.r * Base + limb) \div d>> \o high.q,
     r |-> (high.r * Base + limb) % d]

RECURSIVE DivSmall(_, _)
\* quotient q and remainder r of a by d, for d below 2^17
DivSmall(a, d) ==
    IF a = <<>> THEN [q |-> <<>>, r |-> 0]
    ELSE DivLimb(DivSmall(Tail(a), d), a[1], d)

RECURSIVE BitsOf(_)
BitsOf(k) == IF k = 0 THEN 0 ELSE 1 + BitsOf(k \div 2)

\* the number of bits of a, which has no leading zero limb
BitLen(a) ==
    IF a = <<>> THEN 0 ELSE (Len(a) - 1) * LimbBits + BitsOf(a[Len(a)])

\* a shifted right by k bits
ShiftRight(a, k) ==
    IF k \div LimbBits >= Len(a) THEN <<>>
    ELSE Trim(DivSmall(SubSeq(a, (k \div LimbBits) + 1, Len(a)),
                       2 ^ (k % LimbBits)).q)

\* bit i of a, bit 0 the least significant
Bit(a, i) ==
    IF i \div LimbBits >= Len(a) THEN 0
    ELSE (a[(i \div LimbBits) + 1] \div (2 ^ (i % LimbBits))) % 2

\* some bit of a below bit k is 1
LowBits(a, k) ==
    \/ \E j \in 1..Len(a) : j <= k \div LimbBits /\ a[j] # 0
    \/ /\ k \div LimbBits < Len(a)
       /\ a[(k \div LimbBits) + 1] % (2 ^ (k % LimbBits)) # 0

\* a / 2^k rounded to the nearest whole number, ties to even (k >= 1)
RoundShift(a, k) ==
    IF Bit(a, k - 1) = 1 /\ (LowBits(a, k - 1) \/ Bit(a, k) = 1)
    THEN BigAdd(ShiftRight(a, k), <<>>, 1)
    ELSE ShiftRight(a, k)

\* num / 2^exp rounded to a float64 (num without leading zero limbs)
RoundToFloat(num, exp) ==
    IF BitLen(num) <= Mantissa THEN [num |-> num, exp |-> exp]
    ELSE [num |-> RoundShift(num, BitLen(num) - Mantissa),
          exp |-> exp - (BitLen(num) - Mantissa)]

Float(num, exp) == RoundToFloat(Trim(num), exp)

\* 2^(5 * LimbBits) / d, with a last bit that is 1 when the division left a
\* remainder
ReciprocalBits(division) ==
    MulSmall(division.q, 2, IF division.r # 0 THEN 1 ELSE 0)

\* step = delta / div, with delta = 1.0
Reciprocal(d) ==
    Float(ReciprocalBits(DivSmall(<<0, 0, 0, 0, 0, 1>>, d)), 5 * LimbBits + 1)

\* y = arange(0, num) * step, then y[-1] = stop
LinspaceBy(num, step) ==
    [i \in 1..num |->
        IF i = num THEN [num |-> <<1>>, exp |-> 0]
        ELSE Float(MulSmall(step.num, i - 1, 0), step.exp)]

\* np.linspace(0, 1, num=num, endpoint=True)
Linspace(num) == LinspaceBy(num, Reciprocal(num - 1))

\* np.power(scaled_values, n): the exact power, rounded
Power(x, n) == Float(BigPow(x.num, n), x.exp * n)

\* ... * count_limit
TimesLimit(x, limit) == Float(MulSmall(x.num, limit, 0), x.exp)

\* astype(int): the whole part
AsInt(x) == ToInt(ShiftRight(x.num, x.exp))

\* the whole part of count_limit * (i / (num_points - 1))^n, computed in
\* whole numbers
ExactEntry(n, limit, points, i) ==
    (limit * (i ^ n)) \div ((points - 1) ^ n)

\* linspace, power, / np.max(scaled_values) * count_limit, astype(int).  The
\* maximum is the last entry, which linspace set to 1.0 and whose power is
\* 1.0: the division by it is exact and changes nothing.
custom_scale(n, limit, points) ==
    [i \in 1..points |-> AsInt(TimesLimit(Power(Linspace(points)[i], n), limit))]

call_custom_scale(n, limit, points) ==
    Call("custom_scale", [n |-> n, count_limit |-> limit, num_points |-> points],
         Returned(custom_scale(n, limit, points)))

NextGrid ==
    /\ pc = "idle"
    /\ \E n \in Degrees, limit \in (0..MaxLimit) \cup {count_limit},
          points \in (2..MaxPoints) \cup {num_points} :
          call_custom_scale(n, limit, points)

\* custom_scale called once on any of the inputs
SpecGrid == Idle /\ [][NextGrid]_vars

(* C16: for n >= 1, count_limit >= 0 and num_points >= 2 custom_scale       *)
(* returns exactly num_points integers, never falling, the i-th (from 0)    *)
(* being count_limit * (i / (num_points - 1))^n cut to its whole part: the  *)
(* first is 0 and the last, the largest, is count_limit.                    *)
C16_GridlinesExact ==
    pc = "custom_scale" =>
        /\ Len(result.value) = req.num_points
        /\ \A i \in 1..req.num_points :
              result.value[i] = ExactEntry(req.n, req.count_limit, req.num_points, i - 1)
        /\ \A i \in 1..(req.num_points - 1) : result.value[i] <= result.value[i + 1]
        /\ result.value[1] = 0
        /\ result.value[req.num_points] = req.count_limit

-----------------------------------------------------------------------------
(* utils.py: round_to_nearest *)

\* the largest value rounded
MaxValue == 99999

RECURSIVE DigitCount(_)
\* len(str(value)), for value >= 0
DigitCount(value) == IF value < 10 THEN 1 ELSE 1 + DigitCount(value \div 10)

\* value cut down to a multiple of unit
RoundDown(value, unit) == (value \div unit) * unit

\* round(value, -k) with unit = 10^k: the nearest multiple of unit, a value
\* half way between two going to the even one
Round(value, unit) ==
    IF 2 * (value % unit) < unit THEN (value \div unit) * unit
    ELSE IF 2 * (value % unit) > unit THEN ((value \div unit) + 1) * unit
    ELSE IF (value \div unit) % 2 = 0 THEN (value \div unit) * unit
    ELSE ((value \div unit) + 1) * unit

\* what a function returns when it ends without a return statement
None == [none |-> TRUE]

\* int(np.log10(value)) is one less than the number of digits of value
round_to_nearest(value) ==
    IF DigitCount(value) = 1 THEN value
    ELSE IF DigitCount(value) \in 2..3
         THEN Round(value, 10 ^ (DigitCount(value) - 1))
    ELSE IF DigitCount(value) \in 4..5
         THEN Round(value, 10 ^ ((DigitCount(value) - 1) - 1))
    ELSE None

call_round_to_nearest(value) ==
    Call("round_to_nearest", [value |-> value], Returned(round_to_nearest(value)))

NextRound ==
    /\ pc = "idle"
    /\ \E value \in 0..MaxValue : call_round_to_nearest(value)

\* round_to_nearest called once on any value
SpecRound == Idle /\ [][NextRound]_vars

\* the power of ten the claim rounds a value of d digits to
UnitOf(d) == IF d = 1 THEN 1 ELSE IF d <= 3 THEN 10 ^ (d - 1) ELSE 10 ^ (d - 2)

\* r is a multiple of unit and no multiple of unit is nearer to value
NearestMultiple(r, value, unit) ==
    /\ r % unit = 0
    /\ 2 * (r - value) <= unit
    /\ 2 * (value - r) <= unit

-----------------------------------------------------------------------------
(* utils.py and plots_page3.py: break_text.  A text is a sequence of        *)
(* characters; the character at Python index i is the element i + 1.        *)

\* the longest text, and the largest max_length
MaxText == 5
MaxWidth == 4

\* the texts of up to MaxText characters: a letter, the space, the line break
Texts == UNION {[1..k -> {"a", " ", "\n"}] : k \in 0..MaxText}

\* text.rfind(' ', 0, end): the greatest index below end that holds a space,
\* -1 if there is none
rfind(text, end) ==
    IF \E i \in 1..Len(text) : i <= end /\ text[i] = " "
    THEN (CHOOSE i \in 1..Len(text) :
            /\ i <= end /\ text[i] = " "
            /\ \A j \in 1..Len(text) : (j <= end /\ text[j] = " ") => j <= i) - 1
    ELSE -1

\* str.strip() removes whitespace, the line break included, at both ends
RECURSIVE LeftStrip(_)
LeftStrip(text) ==
    IF text # <<>> /\ text[1] \in {" ", "\n"} THEN LeftStrip(Tail(text)) ELSE text

RECURSIVE RightStrip(_)
RightStrip(text) ==
    IF text # <<>> /\ text[Len(text)] \in {" ", "\n"}
    THEN RightStrip(SubSeq(text, 1, Len(text) - 1))
    ELSE text

\* text.strip()
Strip(text) == RightStrip(LeftStrip(text))

\* f"{line1}\n{line2}" for the lines before and from break_index
SplitAt(text, break_index) ==
    Strip(SubSeq(text, 1, break_index))
        \o <<"\n">>
        \o Strip(SubSeq(text, break_index + 1, Len(text)))

\* break_index: the last space before max_length, max_length without one
BreakIndex(text, max_length) ==
    IF rfind(text, max_length) = -1 THEN max_length ELSE rfind(text, max_length)

break_text(text, max_length) ==
    IF Len(text) <= max_length THEN text
    ELSE SplitAt(text, BreakIndex(text, max_length))

\* utils.break_text
call_break_text(text, max_length) ==
    Call("break_text", [text |-> text, max_length |-> max_length],
         Returned(break_text(text, max_length)))

\* the copy of break_text that plots_page3 defines
call_break_text_page3(text, max_length) ==
    Call("plots_page3.break_text", [text |-> text, max_length |-> max_length],
         Returned(break_text(text, max_length)))

NextText ==
    \/ pc = "idle" /\ \E text \in Texts, max_length \in 0..MaxWidth :
          call_break_text(text, max_length)
    \/ pc = "idle" /\ \E text \in Texts, max_length \in 0..MaxWidth :
          call_break_text_page3(text, max_length)

\* break_text called once on any text
SpecText == Idle /\ [][NextText]_vars

BreakTextCalled == pc \in {"break_text", "plots_page3.break_text"}

(* C18: break_text returns the text unchanged exactly when its length is at *)
(* most max_length, for every text and every max_length >= 0: a text over   *)
(* the limit always comes back altered.                                     *)
C18_UnchangedIffWithinLimit ==
    BreakTextCalled =>
        (result.value = req.text <=> Len(req.text) <= req.max_length)

\* the index the text is said to be split at: the greatest index up to and
\* including max_length that holds a space, max_length without one
SaidIndex(text, max_length) ==
    IF \E k \in 0..max_length : text[k + 1] = " "
    THEN CHOOSE k \in 0..max_length :
            /\ text[k + 1] = " "
            /\ \A j \in 0..max_length : text[j + 1] = " " => j <= k
    ELSE max_length

(* C19: a text longer than max_length is split at the greatest index k <=   *)
(* max_length that holds a space, a space at index max_length itself        *)
(* counting, or at max_length when there is none; the first line is the     *)
(* text before k, the second the text from k on (each compared trimmed).    *)
C19_SplitAtLastSpace ==
    (BreakTextCalled /\ Len(req.text) > req.max_length) =>
        result.value = SplitAt(req.text, SaidIndex(req.text, req.max_length))

\* the positions of the line breaks in text
LineBreaks(text) == {i \in 1..Len(text) : text[i] = "\n"}

(* C20: for a text of letters and spaces longer than max_length >= 1 the    *)
(* result is exactly two lines joined by exactly one line break, each line  *)
(* non-empty and without leading or trailing whitespace, also when the text *)
(* starts or ends with spaces.                                              *)
C20_TwoTrimmedLines ==
    (/\ BreakTextCalled
     /\ req.max_length >= 1
     /\ Len(req.text) > req.max_length
     /\ LineBreaks(req.text) = {}) =>
        /\ Cardinality(LineBreaks(result.value)) = 1
        /\ \A i \in LineBreaks(result.value) :
              /\ 1 < i
              /\ i < Len(result.value)
              /\ result.value[1] # " "
              /\ result.value[i - 1] # " "
              /\ result.value[i + 1] # " "
              /\ result.value[Len(result.value)] # " "

-----------------------------------------------------------------------------
(* plots_index.py: the aggregation every chart builder of the index page    *)
(* starts with, on a Dataset that may hold no row at all.                   *)

\* the largest number of rows of a Dataset that is only aggregated
MaxGroupedRows == 1

\* the lists of two or three different columns a Dataset is grouped by
GroupingColumns ==
    {by \in Columns \X Columns : by[1] # by[2]}
    \cup {by \in Columns \X Columns \X Columns :
            by[1] # by[2] /\ by[1] # by[3] /\ by[2] # by[3]}

\* df read from a file of no row or of a few, nothing called yet
InitGrouped ==
    /\ df \in {<<>>} \cup Datasets(MaxGroupedRows)
    /\ loaded = df
    /\ lastReq = NoRequest
    /\ result = NoResult
    /\ pc = "idle"
    /\ req = NoCall
    /\ acc = <<>>

\* lines 60-72 of create_heatmap_fig, 181-198 of create_bar_plot and 392-406
\* of create_pie_chart_plot: groupby(by).size().unstack().reset_index(),
\* pd.melt and fillna(0)
aggregate(by) ==
    /\ pc = "idle"
    /\ pc' = "aggregate"
    /\ req' = [by |-> by]
    /\ result' = Success(MeltedCounts(df, by))
    /\ UNCHANGED <<df, loaded, lastReq, acc>>

NextGrouped == \E by \in GroupingColumns : aggregate(by)

\* the aggregation run once on a Dataset of no row or of a few
SpecGrouped == InitGrouped /\ [][NextGrouped]_vars

-----------------------------------------------------------------------------
(* Process start-up: python runs dashboard.py, whose import statements run  *)
(* the chart modules, which import from utils.  Imports of installed        *)
(* libraries are taken to succeed.                                          *)

\* the names bound at the top level of each module once its body has run
module_names ==
    [utils |->
        {"np", "pd", "Union", "break_text", "round_to_nearest", "scale",
         "nth_root", "custom_scale"},
     plots_index |->
        {"pd", "pi", "cycle", "figure", "factor_cmap", "cumsum", "break_text",
         "variables_dict", "TOOLS", "width", "height", "create_heatmap_fig",
         "create_bar_plot", "create_line_plot", "create_pie_chart_plot"},
     plots_page2 |->
        {"pd", "np", "cycle", "figure", "BuRd7", "break_text", "scale",
         "nth_root", "custom_scale_radii", "round_to_nearest", "variables_dict",
         "TOOLS", "width_donut", "height_donut", "n", "num_points",
         "create_donut_chart_plot"},
     plots_page3 |->
        {"pd", "np", "hv", "opts", "cycle", "figure", "variables_dict", "TOOLS",
         "break_text", "create_sankey_df", "create_sankey_plot",
         "create_crosstab_dfs", "create_crosstab_plot"},
     dashboard |->
        {"pd", "app", "df", "update_plots_index", "update_plots_page2",
         "update_plots_page3", "index", "page2", "page3"}]

\* the from ... import statements of each module that name a module of the
\* repository, in the order of the file
module_imports ==
    [utils |-> <<>>,
     plots_index |-> <<[module |-> "utils", names |-> {"break_text"}]>>,
     plots_page2 |->
        <<[module |-> "utils",
           names |-> {"break_text", "scale", "nth_root", "custom_scale_radii",
                      "round_to_nearest"}]>>,
     plots_page3 |-> <<>>,
     dashboard |->
        <<[module |-> "plots_index",
           names |-> {"create_heatmap_fig", "create_bar_plot", "create_line_plot",
                      "create_pie_chart_plot"}],
          [module |-> "plots_page2", names |-> {"create_donut_chart_plot"}],
          [module |-> "plots_page3",
           names |-> {"create_sankey_plot", "create_crosstab_plot"}]>>]

\* python dashboard.py: nothing imported yet; loaded is what
\* final_dataset.parquet holds.  acc.modules are the modules whose body has
\* run, acc.stack the modules whose body is running, each with the number of
\* its import statement to run next.
InitStartup ==
    /\ loaded \in Datasets(MaxSharedRows)
    /\ df = <<>>
    /\ lastReq = NoRequest
    /\ result = NoResult
    /\ pc = "loading"
    /\ req = NoCall
    /\ acc = [modules |-> {}, stack |-> <<[module |-> "dashboard", next |-> 1]>>]

\* the import statement the running module is at names a module not loaded
\* yet: its body starts to run
import_module ==
    /\ pc = "loading"
    /\ LET frame == acc.stack[Len(acc.stack)]
       IN  /\ frame.next <= Len(module_imports[frame.module])
           /\ module_imports[frame.module][frame.next].module \notin acc.modules
           /\ acc' = [acc EXCEPT !.stack =
                         Append(@, [module |-> module_imports[frame.module][frame.next].module,
                                    next |-> 1])]
    /\ UNCHANGED <<df, loaded, lastReq, result, pc, req>>

\* the module named is loaded: from ... import looks every name up in it.  A
\* name it does not hold raises ImportError, which no module catches: the
\* interpreter ends.
import_names ==
    /\ pc = "loading"
    /\ LET frame == acc.stack[Len(acc.stack)]
       IN  /\ frame.next <= Len(module_imports[frame.module])
           /\ module_imports[frame.module][frame.next].module \in acc.modules
           /\ IF module_imports[frame.module][frame.next].names
                    \subseteq module_names[module_imports[frame.module][frame.next].module]
              THEN /\ acc' = [acc EXCEPT !.stack[Len(acc.stack)].next = @ + 1]
                   /\ pc' = pc
              ELSE /\ acc' = [acc EXCEPT !.stack = <<>>]
                   /\ pc' = "ImportError"
    /\ UNCHANGED <<df, loaded, lastReq, result, req>>

\* the imports of the running module are done and the rest of its body runs:
\* its assignments and defs; in dashboard.py also df = pd.read_parquet(...)
\* and app.run(), after which the process serves requests
end_of_module ==
    /\ pc = "loading"
    /\ LET frame == acc.stack[Len(acc.stack)]
       IN  /\ frame.next > Len(module_imports[frame.module])
           /\ IF frame.module = "dashboard"
              THEN /\ df' = loaded
                   /\ pc' = "serving"
                   /\ acc' = [modules |-> acc.modules \cup {"dashboard"}, stack |-> <<>>]
              ELSE /\ df' = df
                   /\ pc' = pc
                   /\ acc' = [modules |-> acc.modules \cup {frame.module},
                              stack |-> SubSeq(acc.stack, 1, Len(acc.stack) - 1)]
    /\ UNCHANGED <<loaded, lastReq, result, req>>

NextStartup == import_module \/ import_names \/ end_of_module

\* the process from the start of the interpreter on
SpecStartup == InitStartup /\ [][NextStartup]_vars

(* C22: every helper name the chart modules import from utils (break_text,  *)
(* scale, nth_root, custom_scale_radii, round_to_nearest) is defined by     *)
(* utils, so that loading the dashboard module never ends in an import      *)
(* error and goes on to the state in which the process serves requests.     *)
C22_ImportsResolve == pc # "ImportError"

-----------------------------------------------------------------------------
(* C23: in the grouped bar plot (filter variable other than gender) labels  *)
(* and heights are aligned: at every position i the bar labelled            *)
(* x[i] = (gender g, category c) has the height counts[i] that is the       *)
(* number of Dataset rows of the selected obesity class with gender g and   *)
(* category c.                                                              *)
C23_BarsAligned ==
    (IndexDone /\ lastReq.filter_variable # "gender") =>
        /\ Len(result.charts[2].x) = Len(result.charts[2].counts)
        /\ \A i \in 1..Len(result.charts[2].x) :
              result.charts[2].counts[i]
                  = RowsWith(loaded, BarBy(lastReq.filter_variable),
                             <<lastReq.obesity_category>> \o result.charts[2].x[i])

-----------------------------------------------------------------------------
(* C24: in the line plot, for every obesity class and every age a present   *)
(* for that class, the y value plotted at a is the sum of the counts over   *)
(* the categories of the filter variable: the number of Dataset rows with   *)
(* that class and age.  It does not depend on the number a itself.          *)
C24_LineSumsCounts ==
    IndexDone =>
        \A k \in 1..Len(result.charts[3].lines) :
            \A i \in 1..Len(result.charts[3].lines[k].x) :
                result.charts[3].lines[k].y[i]
                    = RowsWith(loaded, <<"nobeyesdad", "age">>,
                               <<result.charts[3].lines[k].legend_label,
                                 result.charts[3].lines[k].x[i]>>)

-----------------------------------------------------------------------------
(* C25: a request that ends in a failure (a column that is not in the       *)
(* Dataset, or one that is in the Dataset but not in the page's dictionary  *)
(* of variable names) leaves the shared Dataset as it was before the        *)
(* request: the same rows in the same order.                                *)
C25_FailureLeavesDataset ==
    (lastReq # NoRequest /\ ~result.ok) => df = loaded

-----------------------------------------------------------------------------
(* C26: after any finite sequence of requests to the three pages, failed    *)
(* ones included, the shared Dataset holds the same columns and the same    *)
(* multiset of rows as when it was loaded: no row or cell is added,         *)
(* removed, duplicated or altered; at most the order of the rows differs.   *)
SameRows(d, e) ==
    /\ Len(d) = Len(e)
    /\ \E f \in Orders(Len(e)) : d = [i \in 1..Len(e) |-> e[f[i]]]

C26_RowsPreserved ==
    /\ SameRows(df, loaded)
    /\ \A i \in 1..Len(df) : DOMAIN df[i] = Columns

\* a Dataset of two different rows that a failed donut request left in the
\* other order
C26_Witness ==
    /\ lastReq.page = "page2"
    /\ ~result.ok
    /\ df # loaded
    /\ df[1] # df[2]

-----------------------------------------------------------------------------
(* The Sankey table of a page 3 request.                                   *)

\* one page 3 request served on the Dataset as loaded
NextSankey == \E v \in Page3Variables : page3(v)

SpecSankey == InitOnce /\ [][NextSankey]_vars

\* the number of links of the level that groups the Dataset by the columns by
LinkCount(by) == Cardinality({KeyOf(loaded[i], by) : i \in 1..Len(loaded)})

\* the three link levels of the table the request built, in the order
\* create_sankey_df concatenates them: filter-variable category to gender,
\* gender to age group, age group to obesity class
SankeyLevel(j) ==
    LET n1 == LinkCount(<<lastReq.filter_variable, "gender">>)
        n2 == LinkCount(<<"gender", "age_group">>)
        n3 == LinkCount(<<"age_group", "nobeyesdad">>)
        data == result.charts[1].data
    IN  CASE j = 1 -> SubSeq(data, 1, n1)
          [] j = 2 -> SubSeq(data, n1 + 1, n1 + n2)
          [] j = 3 -> SubSeq(data, n1 + n2 + 1, n1 + n2 + n3)

\* the sum of the values of the links of a level into, and out of, a node
FlowInto(links, node) ==
    SumSeq([k \in 1..Len(links) |->
               IF links[k].target = node THEN links[k].value ELSE 0])
FlowOutOf(links, node) ==
    SumSeq([k \in 1..Len(links) |->
               IF links[k].source = node THEN links[k].value ELSE 0])
FlowOf(links) == SumSeq([k \in 1..Len(links) |-> links[k].value])

\* the nodes between level j and level j + 1
NodesAfter(j) ==
    {SankeyLevel(j)[k].target : k \in 1..Len(SankeyLevel(j))}
        \cup {SankeyLevel(j + 1)[k].source : k \in 1..Len(SankeyLevel(j + 1))}

\* C27: in the Sankey table of a page 3 request, the table is the three link
\* levels and nothing else, the values of the links of each level sum to the
\* number of Dataset rows, and for every gender and for every age group the
\* values of the links into it sum to the same as the values of the links out
\* of it.
C27_FlowConserved ==
    Page3Done =>
        /\ Len(result.charts[1].data)
              = Len(SankeyLevel(1)) + Len(SankeyLevel(2)) + Len(SankeyLevel(3))
        /\ \A j \in 1..3 : FlowOf(SankeyLevel(j)) = Len(loaded)
        /\ \A j \in 1..2 : \A node \in NodesAfter(j) :
              FlowInto(SankeyLevel(j), node) = FlowOutOf(SankeyLevel(j + 1), node)

\* a page 3 request on a Dataset with two equal rows and a third of the same
\* gender and another category: the gender has two links into it, one of
\* value 2
C27_Witness ==
    /\ Page3Done
    /\ lastReq.filter_variable = "diabetes"
    /\ Len(loaded) = 3
    /\ Len(SankeyLevel(1)) = 2
    /\ \E k \in 1..2 : SankeyLevel(1)[k].value = 2
    /\ SankeyLevel(1)[1].target = SankeyLevel(1)[2].target

====
